---- MODULE Spec2Model ----
(***************************************************************************)
(* gitmap: a key/value map staged on top of a bare git repository.         *)
(*                                                                         *)
(* The model follows src/src/lib.rs.  The git2 object store is modelled by *)
(* what the calls made in lib.rs do: blobs and trees are content addressed *)
(* (an id is the content), commits are numbered in creation order, local   *)
(* branches are references refs/heads/<name>, HEAD is a symbolic reference *)
(* to a branch.                                                            *)
(***************************************************************************)
EXTENDS Naturals, Sequences, FiniteSets, TLC

VARIABLES
    commits,    \* the commit objects of the store, in creation order
    refs,       \* local branch name -> commit number, 0 when the branch does not exist
    head,       \* the branch name HEAD symbolically points to
    tree_id,    \* Repo.tree_id: None or Some(tree)
    last,       \* the call made last on the handle, its arguments and its result
    roundtrip,  \* history: progress of an insert_key / commit / open sequence
    since_commit \* history: the handle committed and made no key-mutating call since

vars == <<commits, refs, head, tree_id, last, roundtrip, since_commit>>

----------------------------------------------------------------------------
(* Bounds and input sets *)

MaxCommits == 2

\* key names in the canonical (byte) order in which a tree lists its entries
KeyList == <<"bar", "foo">>
Keys == {KeyList[i] : i \in 1..Len(KeyList)}
\* a name the tree builder rejects (a path separator inside an entry name)
BadKey == "a/b"
KeyInputs == Keys \cup {BadKey}
Vals == {"1", "2"}
\* the (key, value) pairs handed to insert_key: an overwritten key, a second
\* key, a rejected name
InsertInputs == {<<"foo", "1">>, <<"foo", "2">>, <<"bar", "1">>, <<BadKey, "1">>}
Msgs == {""}

\* the fallible store calls of a staging operation, and the one that fails
\* during a call (NoFault: none does)
NoFault == "none"
Faults == {"find_tree", "blob", "treebuilder", "write"}

\* branch names as token sequences, so that the text "refs/heads/" inside a
\* name is visible to branch()
RefsHeads == "refs/heads/"
Master == <<"master">>
Nested == <<"x/", RefsHeads, "foo">>
BadBranch == <<>>
BranchList == <<Master, Nested>>
BranchNames == {BranchList[i] : i \in 1..Len(BranchList)}
BranchInputs == BranchNames \cup {BadBranch}

----------------------------------------------------------------------------
(* Option / Result *)

None == <<>>
Some(x) == <<x>>
Err == <<>>
Ok(x) == <<x>>

----------------------------------------------------------------------------
(* Trees: content-addressed maps from entry name to blob content *)

EmptyTree == [k \in {} |-> "1"]

\* tree.get_name(name): the blob of a top-level entry
get_name(tree, name) == IF name \in DOMAIN tree THEN Some(tree[name]) ELSE None

\* variant: the entries that sort after the inserted name are lost
builder_insert_truncating(tree, name, value) ==
    LET pos(k) == CHOOSE i \in 1..Len(KeyList) : KeyList[i] = k
    IN [k \in {j \in DOMAIN tree : pos(j) < pos(name)} \cup {name} |->
            IF k = name THEN value ELSE tree[k]]

\* variant: the builder starts from no tree
builder_insert_fresh(tree, name, value) == [k \in {name} |-> value]

\* TreeBuilder::insert followed by write
builder_insert(tree, name, value) ==
    [k \in (DOMAIN tree) \cup {name} |-> IF k = name THEN value ELSE tree[k]]

\* TreeBuilder::remove followed by write
builder_remove(tree, name) == [k \in (DOMAIN tree) \ {name} |-> tree[k]]

\* variant: only added and deleted entries are deltas, a changed blob is not
diff_tree_to_tree_names(old, new, include_unmodified) ==
    LET o == IF old = None THEN EmptyTree ELSE old[1]
        n == IF new = None THEN EmptyTree ELSE new[1]
        delta(k) == /\ k \in (DOMAIN o) \cup (DOMAIN n)
                    /\ \/ include_unmodified
                       \/ (k \in DOMAIN o) # (k \in DOMAIN n)
    IN SelectSeq(KeyList, delta)

\* repo.diff_tree_to_tree(old, new, opts): the paths of the deltas, in path order;
\* an absent side is the empty tree, unmodified entries are listed on request
diff_tree_to_tree(old, new, include_unmodified) ==
    LET o == IF old = None THEN EmptyTree ELSE old[1]
        n == IF new = None THEN EmptyTree ELSE new[1]
        delta(k) == /\ k \in (DOMAIN o) \cup (DOMAIN n)
                    /\ \/ include_unmodified
                       \/ get_name(o, k) # get_name(n, k)
    IN SelectSeq(KeyList, delta)

----------------------------------------------------------------------------
(* The store as seen through git2 *)

\* Repository::is_empty: HEAD points to the unborn initial branch and there is no reference
is_empty == head = Master /\ \A b \in BranchNames : refs[b] = 0

\* reference name validity as far as the inputs go
valid_branch_name(name) == name # BadBranch

\* the text after the last occurrence of "refs/heads/" in a reference name
split_last(refname) ==
    LET at == {i \in 1..Len(refname) : refname[i] = RefsHeads}
        m == CHOOSE i \in at : \A j \in at : j <= i
    IN IF at = {} THEN refname ELSE SubSeq(refname, m + 1, Len(refname))

----------------------------------------------------------------------------
(* Repo: private helpers and read-only queries *)

has_commits == ~is_empty

last_commit_id == IF refs[head] = 0 THEN Err ELSE Ok(refs[head])

\* variant: the tree of the first commit of the store
last_tree_id_first == IF last_commit_id = Err THEN Err ELSE Ok(commits[1].tree)

last_tree_id == IF last_commit_id = Err THEN Err ELSE Ok(commits[last_commit_id[1]].tree)

empty_tree_id == Ok(EmptyTree)

\* variant: the pending tree is not consulted
current_tree_id_committed ==
    IF ~has_commits THEN empty_tree_id ELSE last_tree_id

current_tree_id ==
    IF tree_id # None THEN Ok(tree_id[1])
    ELSE IF ~has_commits THEN empty_tree_id
    ELSE last_tree_id

branches == SelectSeq(BranchList, LAMBDA b : refs[b] # 0)

has_branches == Len(branches) > 0

has_branch(name) == \E i \in 1..Len(branches) : branches[i] = name

keys ==
    IF current_tree_id = Err THEN <<>>
    ELSE diff_tree_to_tree(Some(current_tree_id[1]), None, TRUE)

len == Len(keys)

has_keys == Len(keys) > 0

has_key(name) ==
    IF current_tree_id = Err THEN FALSE
    ELSE get_name(current_tree_id[1], name) # None

key(name) ==
    IF current_tree_id = Err THEN None
    ELSE get_name(current_tree_id[1], name)

\* variant: the target of HEAD is reported although it is unborn
branch_unborn == Some(split_last(<<RefsHeads>> \o head))

branch ==
    IF refs[head] = 0 THEN None
    ELSE Some(split_last(<<RefsHeads>> \o head))

changed ==
    IF ~has_commits THEN tree_id # None /\ len > 0
    ELSE IF last_tree_id = Err \/ current_tree_id = Err THEN FALSE
    ELSE Len(diff_tree_to_tree(last_tree_id, current_tree_id, FALSE)) > 0

\* variant: a delta is matched only when its new side holds the entry
key_changed_new_side(name) ==
    IF ~has_commits THEN has_key(name)
    ELSE IF last_tree_id = Err \/ current_tree_id = Err THEN FALSE
    ELSE LET d == diff_tree_to_tree(last_tree_id, current_tree_id, FALSE)
         IN /\ \E i \in 1..Len(d) : d[i] = name
            /\ get_name(current_tree_id[1], name) # None

key_changed(name) ==
    IF ~has_commits THEN has_key(name)
    ELSE IF last_tree_id = Err \/ current_tree_id = Err THEN FALSE
    ELSE LET d == diff_tree_to_tree(last_tree_id, current_tree_id, FALSE)
         IN \E i \in 1..Len(d) : d[i] = name

----------------------------------------------------------------------------
(* The record of the last call *)

NoKey == "-"
NoVal == "-"
NoBranch == <<"-">>

Call(op, k, v, b, ok) ==
    [op |-> op, key |-> k, value |-> v, branch |-> b,
     res |-> IF ok THEN "Ok" ELSE "Err"]

NoTrip == [stage |-> "none", prev |-> "-", ins |-> None, view |-> None]

----------------------------------------------------------------------------
(* Repo: construction *)

Init ==
    /\ commits = <<>>
    /\ refs = [b \in BranchNames |-> 0]
    /\ head = Master
    /\ tree_id = None
    /\ last = Call("init", NoKey, NoVal, NoBranch, TRUE)
    /\ roundtrip = NoTrip
    /\ since_commit = FALSE

\* Repo::open on the same store: a new handle, the previous one dropped
open ==
    /\ tree_id' = None
    /\ UNCHANGED <<commits, refs, head>>
    /\ since_commit' = FALSE
    /\ last' = Call("open", NoKey, NoVal, NoBranch, TRUE)
    /\ roundtrip' = IF roundtrip.stage = "committed"
                    THEN [roundtrip EXCEPT !.stage = "reopened"]
                    ELSE NoTrip

----------------------------------------------------------------------------
(* Repo: staging *)

\* the store calls a staging operation makes before it assigns tree_id
insert_key_steps == {"find_tree", "blob", "treebuilder", "write"}
remove_steps == {"find_tree", "treebuilder", "write"}
reset_key_steps(name) ==
    {"find_tree", "treebuilder", "write"} \cup
    (IF has_commits /\ last_tree_id # Err /\ get_name(last_tree_id[1], name) # None
     THEN {"blob"} ELSE {})
remove_key_steps(name) ==
    IF has_key(name) THEN {"find_tree", "treebuilder", "write"} ELSE {}

\* variant: the pending tree is assigned before the tree write is known to succeed
insert_key_early_assign(name, value, fault) ==
    LET base == current_tree_id
        ok == base # Err /\ name \in Keys /\ fault \notin insert_key_steps
        built == base # Err /\ name \in Keys /\ fault \notin (insert_key_steps \ {"write"})
    IN /\ tree_id' = IF built THEN Some(builder_insert(base[1], name, value)) ELSE tree_id
       /\ UNCHANGED <<commits, refs, head>>
       /\ since_commit' = FALSE
       /\ last' = Call("insert_key", name, value, NoBranch, ok)
       /\ roundtrip' = NoTrip

insert_key(name, value, fault) ==
    LET base == current_tree_id
        ok == base # Err /\ name \in Keys /\ fault \notin insert_key_steps
    IN /\ tree_id' = IF ok THEN Some(builder_insert(base[1], name, value)) ELSE tree_id
       /\ UNCHANGED <<commits, refs, head>>
       /\ since_commit' = FALSE
       /\ last' = Call("insert_key", name, value, NoBranch, ok)
       /\ roundtrip' = NoTrip

\* variant: the pending tree survives
reset_keeps_pending ==
    /\ UNCHANGED <<commits, refs, head, tree_id>>
    /\ since_commit' = since_commit
    /\ last' = Call("reset", NoKey, NoVal, NoBranch, TRUE)
    /\ roundtrip' = NoTrip

reset ==
    /\ tree_id' = None
    /\ UNCHANGED <<commits, refs, head>>
    /\ since_commit' = since_commit
    /\ last' = Call("reset", NoKey, NoVal, NoBranch, TRUE)
    /\ roundtrip' = NoTrip

\* variant: the loop stops after the first key
remove_each_first(builder, names) ==
    IF names = <<>> THEN Ok(builder)
    ELSE IF Head(names) \notin DOMAIN builder THEN Err
    ELSE Ok(builder_remove(builder, Head(names)))

RECURSIVE remove_each(_, _)
\* the loop of Repo::remove: TreeBuilder::remove fails on a name it does not hold
remove_each(builder, names) ==
    IF names = <<>> THEN Ok(builder)
    ELSE IF Head(names) \notin DOMAIN builder THEN Err
    ELSE remove_each(builder_remove(builder, Head(names)), Tail(names))

remove(fault) ==
    LET base == current_tree_id
        built == IF base = Err THEN Err ELSE remove_each(base[1], keys)
        ok == built # Err /\ fault \notin remove_steps
    IN /\ tree_id' = IF ok THEN Some(built[1]) ELSE tree_id
       /\ UNCHANGED <<commits, refs, head>>
       /\ since_commit' = FALSE
       /\ last' = Call("remove", NoKey, NoVal, NoBranch, ok)
       /\ roundtrip' = NoTrip

\* variant: the key is removed and the committed blob is not put back
reset_key_remove_only(name, fault) ==
    LET base == current_tree_id
        removed == IF has_key(name) THEN builder_remove(base[1], name) ELSE base[1]
        ok == base # Err /\ fault \notin reset_key_steps(name)
    IN /\ tree_id' = IF ok THEN Some(removed) ELSE tree_id
       /\ UNCHANGED <<commits, refs, head>>
       /\ since_commit' = FALSE
       /\ last' = Call("reset_key", name, NoVal, NoBranch, ok)
       /\ roundtrip' = NoTrip

\* variant: every staged edit is dropped, not only the one to the key
reset_key_discards_all(name, fault) ==
    LET base == current_tree_id
        committed == last_tree_id
        ok == /\ base # Err
              /\ has_commits => committed # Err
              /\ fault \notin reset_key_steps(name)
    IN /\ tree_id' = IF ok THEN (IF has_commits THEN committed ELSE Some(EmptyTree))
                     ELSE tree_id
       /\ UNCHANGED <<commits, refs, head>>
       /\ since_commit' = FALSE
       /\ last' = Call("reset_key", name, NoVal, NoBranch, ok)
       /\ roundtrip' = NoTrip

reset_key(name, fault) ==
    LET base == current_tree_id
        removed == IF has_key(name) THEN builder_remove(base[1], name) ELSE base[1]
        committed == last_tree_id
        restored == IF has_commits /\ get_name(committed[1], name) # None
                    THEN builder_insert(removed, name, get_name(committed[1], name)[1])
                    ELSE removed
        ok == /\ base # Err
              /\ has_commits => committed # Err
              /\ fault \notin reset_key_steps(name)
    IN /\ tree_id' = IF ok THEN Some(restored) ELSE tree_id
       /\ UNCHANGED <<commits, refs, head>>
       /\ since_commit' = FALSE
       /\ last' = Call("reset_key", name, NoVal, NoBranch, ok)
       /\ roundtrip' = NoTrip

\* variant: the tree is rebuilt whether or not it holds the key
remove_key_always(name, fault) ==
    LET base == current_tree_id
        ok == base # Err /\ fault \notin {"find_tree", "treebuilder", "write"}
    IN /\ tree_id' = IF ok
                     THEN Some(IF has_key(name) THEN builder_remove(base[1], name) ELSE base[1])
                     ELSE tree_id
       /\ UNCHANGED <<commits, refs, head>>
       /\ since_commit' = FALSE
       /\ last' = Call("remove_key", name, NoVal, NoBranch, ok)
       /\ roundtrip' = NoTrip

remove_key(name, fault) ==
    LET base == current_tree_id
        ok == has_key(name) => (base # Err /\ fault \notin remove_key_steps(name))
    IN /\ tree_id' = IF has_key(name) /\ ok
                     THEN Some(builder_remove(base[1], name))
                     ELSE tree_id
       /\ UNCHANGED <<commits, refs, head>>
       /\ since_commit' = FALSE
       /\ last' = Call("remove_key", name, NoVal, NoBranch, ok)
       /\ roundtrip' = NoTrip

----------------------------------------------------------------------------
(* Repo: commit *)

\* the key/value mapping a caller reads through has_key() and key()
Observed == [k \in {j \in Keys : has_key(j)} |-> key(k)[1]]

\* variant: every commit is written without a parent
commit_orphan(message) ==
    LET tid == current_tree_id
        parent == Ok(<<>>)
        ok == tid # Err /\ parent # Err
        new == [tree |-> tid[1], parents |-> parent[1], message |-> message]
    IN /\ Len(commits) < MaxCommits
       /\ commits' = IF ok THEN Append(commits, new) ELSE commits
       /\ refs' = IF ok THEN [refs EXCEPT ![head] = Len(commits) + 1] ELSE refs
       /\ UNCHANGED <<head, tree_id>>
       /\ since_commit' = (ok \/ since_commit)
       /\ last' = Call("commit", NoKey, NoVal, NoBranch, ok)
       /\ roundtrip' = IF ok
                       THEN [stage |-> "committed",
                             prev |-> IF last.res = "Ok" THEN last.op ELSE "-",
                             ins |-> IF last.op = "insert_key" /\ last.res = "Ok"
                                     THEN Some(<<last.key, last.value>>)
                                     ELSE None,
                             view |-> Some(Observed)]
                       ELSE NoTrip

\* variant: the commit is written with the tree of its parent
commit_parent_tree(message) ==
    LET tid == IF has_commits THEN last_tree_id ELSE current_tree_id
        parent == IF ~has_commits THEN Ok(<<>>)
                  ELSE IF last_commit_id = Err THEN Err
                  ELSE Ok(<<last_commit_id[1]>>)
        ok == tid # Err /\ parent # Err
        new == [tree |-> tid[1], parents |-> parent[1], message |-> message]
    IN /\ Len(commits) < MaxCommits
       /\ commits' = IF ok THEN Append(commits, new) ELSE commits
       /\ refs' = IF ok THEN [refs EXCEPT ![head] = Len(commits) + 1] ELSE refs
       /\ UNCHANGED <<head, tree_id>>
       /\ since_commit' = (ok \/ since_commit)
       /\ last' = Call("commit", NoKey, NoVal, NoBranch, ok)
       /\ roundtrip' = IF ok
                       THEN [stage |-> "committed",
                             prev |-> IF last.res = "Ok" THEN last.op ELSE "-",
                             ins |-> IF last.op = "insert_key" /\ last.res = "Ok"
                                     THEN Some(<<last.key, last.value>>)
                                     ELSE None,
                             view |-> Some(Observed)]
                       ELSE NoTrip

commit(message) ==
    LET tid == current_tree_id
        parent == IF ~has_commits THEN Ok(<<>>)
                  ELSE IF last_commit_id = Err THEN Err
                  ELSE Ok(<<last_commit_id[1]>>)
        ok == tid # Err /\ parent # Err
        new == [tree |-> tid[1], parents |-> parent[1], message |-> message]
    IN /\ Len(commits) < MaxCommits
       /\ commits' = IF ok THEN Append(commits, new) ELSE commits
       /\ refs' = IF ok THEN [refs EXCEPT ![head] = Len(commits) + 1] ELSE refs
       /\ UNCHANGED <<head, tree_id>>
       /\ since_commit' = (ok \/ since_commit)
       /\ last' = Call("commit", NoKey, NoVal, NoBranch, ok)
       /\ roundtrip' = IF ok
                       THEN [stage |-> "committed",
                             prev |-> IF last.res = "Ok" THEN last.op ELSE "-",
                             ins |-> IF last.op = "insert_key" /\ last.res = "Ok"
                                     THEN Some(<<last.key, last.value>>)
                                     ELSE None,
                             view |-> Some(Observed)]
                       ELSE NoTrip

----------------------------------------------------------------------------
(* Repo: branches *)

\* variant: HEAD is repointed although the branch could not be created
switch_branch_unborn(name) ==
    LET exists == has_branch(name)
        created == exists \/ (last_commit_id # Err /\ valid_branch_name(name))
        ok == valid_branch_name(name)
    IN /\ refs' = IF created /\ ~exists THEN [refs EXCEPT ![name] = last_commit_id[1]] ELSE refs
       /\ head' = IF ok THEN name ELSE head
       /\ UNCHANGED <<commits, tree_id>>
       /\ since_commit' = since_commit
       /\ last' = Call("switch_branch", NoKey, NoVal, name, ok)
       /\ roundtrip' = NoTrip

switch_branch(name) ==
    LET exists == has_branch(name)
        ok == exists \/ (last_commit_id # Err /\ valid_branch_name(name))
    IN /\ refs' = IF ok /\ ~exists THEN [refs EXCEPT ![name] = last_commit_id[1]] ELSE refs
       /\ head' = IF ok THEN name ELSE head
       /\ UNCHANGED <<commits, tree_id>>
       /\ since_commit' = since_commit
       /\ last' = Call("switch_branch", NoKey, NoVal, name, ok)
       /\ roundtrip' = NoTrip

\* variant: the branch under HEAD is deleted like any other
remove_branch_any(name) ==
    LET found == name \in BranchNames /\ refs[name] # 0
        ok == found
    IN /\ refs' = IF ok THEN [refs EXCEPT ![name] = 0] ELSE refs
       /\ UNCHANGED <<commits, head, tree_id>>
       /\ since_commit' = since_commit
       /\ last' = Call("remove_branch", NoKey, NoVal, name, ok)
       /\ roundtrip' = NoTrip

remove_branch(name) ==
    LET found == name \in BranchNames /\ refs[name] # 0
        ok == found /\ name # head
    IN /\ refs' = IF ok THEN [refs EXCEPT ![name] = 0] ELSE refs
       /\ UNCHANGED <<commits, head, tree_id>>
       /\ since_commit' = since_commit
       /\ last' = Call("remove_branch", NoKey, NoVal, name, ok)
       /\ roundtrip' = NoTrip

----------------------------------------------------------------------------

Next ==
    \/ open
    \/ \E kv \in InsertInputs : insert_key(kv[1], kv[2], NoFault)
    \/ reset
    \/ remove(NoFault)
    \/ \E name \in Keys : reset_key(name, NoFault)
    \/ \E name \in Keys : remove_key(name, NoFault)
    \/ \E message \in Msgs : commit(message)
    \/ \E name \in BranchInputs : switch_branch(name)
    \/ \E name \in BranchNames : remove_branch(name)

Spec == Init /\ [][Next]_vars

\* staging on a store whose calls may fail: every staging call with any one
\* store call failing or none, and the calls that move the committed tree on
\* the default branch
FaultInputs == Faults \cup {NoFault}

NextFaults ==
    \/ \E kv \in InsertInputs, fault \in FaultInputs : insert_key(kv[1], kv[2], fault)
    \/ \E fault \in FaultInputs : remove(fault)
    \/ \E name \in Keys, fault \in FaultInputs : reset_key(name, fault)
    \/ \E name \in Keys, fault \in FaultInputs : remove_key(name, fault)
    \/ reset
    \/ \E message \in Msgs : commit(message)

SpecFaults == Init /\ [][NextFaults]_vars

----------------------------------------------------------------------------
(* Vocabulary of the properties, stated on the store itself *)

\* the blob a tree holds under a name, None when it holds none
Lookup(tree, name) == IF name \in DOMAIN tree THEN Some(tree[name]) ELSE None

\* the entry names of a tree in canonical order
NamesOf(tree) == SelectSeq(KeyList, LAMBDA k : k \in DOMAIN tree)

\* no commit object was ever written
NoCommitYet == Len(commits) = 0

\* the tree of the commit the branch under HEAD points to
HeadTree == IF refs[head] = 0 THEN None ELSE Some(commits[refs[head]].tree)

\* the resolution rule: pending tree, else empty tree, else tree of the HEAD commit
Resolved ==
    IF tree_id # None THEN tree_id
    ELSE IF NoCommitYet THEN Some(EmptyTree)
    ELSE HeadTree

Succeeded(op) == last.op = op /\ last.res = "Ok"

----------------------------------------------------------------------------
(* Resolution *)

ReadsResolved ==
    /\ Resolved # None
    /\ \A k \in KeyInputs : /\ key(k) = Lookup(Resolved[1], k)
                            /\ has_key(k) = (k \in DOMAIN Resolved[1])
    /\ keys = NamesOf(Resolved[1])

BuildsOnResolved ==
    /\ Succeeded("insert_key")' =>
          \A j \in Keys : Lookup(Resolved[1], j)' =
              IF j = last'.key THEN Some(last'.value) ELSE Lookup(Resolved[1], j)
    /\ Succeeded("remove_key")' =>
          \A j \in Keys : Lookup(Resolved[1], j)' =
              IF j = last'.key THEN None ELSE Lookup(Resolved[1], j)
    /\ Succeeded("reset_key")' =>
          \A j \in Keys \ {last'.key} : Lookup(Resolved[1], j)' = Lookup(Resolved[1], j)
    /\ Succeeded("remove")' => Resolved' = Some(EmptyTree)
    /\ Succeeded("commit")' => HeadTree' = Resolved

(* C1: in every reachable state the mapping read by key(), has_key() and   *)
(* keys() is the pending tree if one is set, else the empty mapping if no  *)
(* commit exists, else the tree of the commit HEAD resolves to; and        *)
(* insert_key, remove_key, reset_key, remove and commit build on that same *)
(* mapping.                                                                *)
ResolutionInvariant == []ReadsResolved /\ [][BuildsOnResolved]_vars

ResolutionWitness ==
    /\ Succeeded("insert_key")
    /\ tree_id # None
    /\ ~NoCommitYet
    /\ tree_id # HeadTree
    /\ key("foo") = Some("2")
    /\ keys = <<"bar", "foo">>

----------------------------------------------------------------------------
(* insert_key *)

InsertKeyStep ==
    \A k \in KeyInputs, v \in Vals :
        (Succeeded("insert_key")' /\ last'.key = k /\ last'.value = v) =>
            /\ key(k)' = Some(v)
            /\ has_key(k)'
            /\ \A j \in KeyInputs \ {k} : /\ key(j)' = key(j)
                                          /\ has_key(j)' = has_key(j)

(* C2: after insert_key(k, v) succeeds, key(k) = v and has_key(k) holds,   *)
(* whether k was absent or held another value, and key(j), has_key(j) of   *)
(* every other key j are as before the call; commits are not needed.       *)
InsertKeySetsOnlyThatKey == [][InsertKeyStep]_vars

InsertKeyWitness ==
    /\ Succeeded("insert_key")
    /\ NoCommitYet
    /\ last.key = "foo" /\ last.value = "2"
    /\ key("foo") = Some("2")
    /\ key("bar") = Some("1")

----------------------------------------------------------------------------
(* commit and reopen *)

(* C3: after insert_key(k, v), commit(msg) and opening a new handle on the *)
(* same store, the new handle has no pending tree, key(k) = v, and it      *)
(* reads exactly the mapping that was committed.                           *)
RoundTrip ==
    roundtrip.stage = "reopened" =>
        /\ tree_id = None
        /\ Observed = roundtrip.view[1]
        /\ roundtrip.ins # None =>
              key(roundtrip.ins[1][1]) = Some(roundtrip.ins[1][2])

RoundTripWitness ==
    /\ roundtrip.stage = "reopened"
    /\ roundtrip.ins = Some(<<"foo", "2">>)
    /\ Len(commits) = 2
    /\ key("foo") = Some("2")
    /\ key("bar") = Some("1")

----------------------------------------------------------------------------
(* reset *)

(* C4: after reset(), whatever was staged before, keys() lists exactly the *)
(* keys of the tree of the commit HEAD resolves to, or nothing when no     *)
(* commit exists, and changed() is false.                                  *)
ResetRestoresCommitted ==
    Succeeded("reset") =>
        /\ keys = IF NoCommitYet THEN <<>> ELSE NamesOf(HeadTree[1])
        /\ ~changed

ResetWitness ==
    /\ Succeeded("reset")
    /\ ~NoCommitYet
    /\ keys = <<"bar", "foo">>

----------------------------------------------------------------------------
(* changed *)

(* C5: immediately after a successful commit() changed() is false.         *)
CommitClearsChanged == Succeeded("commit") => ~changed

CommitClearsChangedWitness ==
    /\ Succeeded("commit")
    /\ Len(commits) = 2
    /\ tree_id # None
    /\ commits[1].tree # commits[2].tree
    /\ ~changed


(* C6 as stated: after insert_key(k, v) succeeds, with or without commits, *)
(* changed() is true.                                                      *)
InsertAlwaysChanged == Succeeded("insert_key") => changed

(* C6 amended: after insert_key(k, v) succeeds, changed() is true exactly  *)
(* when no commit exists or the resulting tree differs from the tree of    *)
(* the commit HEAD resolves to; in particular it is true whenever that     *)
(* tree does not hold v under k.                                           *)
InsertChangedUnlessCommitted ==
    Succeeded("insert_key") =>
        /\ changed = (NoCommitYet \/ tree_id # HeadTree)
        /\ (~NoCommitYet /\ Lookup(HeadTree[1], last.key) # Some(last.value)) => changed

InsertChangedWitness ==
    /\ Succeeded("insert_key")
    /\ ~NoCommitYet
    /\ Lookup(HeadTree[1], "foo") = Some("1")
    /\ key("foo") = Some("2")
    /\ DOMAIN tree_id[1] = DOMAIN HeadTree[1]
    /\ changed

----------------------------------------------------------------------------
(* no commit yet *)

(* C7 as stated: while no commit was ever made, whatever was staged,       *)
(* has_commits() and has_branches() are false, keys() is empty and         *)
(* branch() is none.                                                       *)
NoCommitAllEmpty ==
    NoCommitYet => /\ ~has_commits
                   /\ ~has_branches
                   /\ keys = <<>>
                   /\ branch = None

(* C7 amended: while no commit was ever made, has_commits() and            *)
(* has_branches() are false and branch() is none; keys() is empty as long  *)
(* as no pending tree is set, and lists the keys of the pending tree       *)
(* otherwise.                                                              *)
NoCommitEmptyUnlessStaged ==
    NoCommitYet => /\ ~has_commits
                   /\ ~has_branches
                   /\ branches = <<>>
                   /\ branch = None
                   /\ keys = IF tree_id = None THEN <<>> ELSE NamesOf(tree_id[1])

NoCommitStagedWitness ==
    /\ NoCommitYet
    /\ Succeeded("insert_key")
    /\ keys = <<"bar", "foo">>
    /\ ~has_commits /\ ~has_branches /\ branch = None

----------------------------------------------------------------------------
(* branches *)

SwitchBeforeCommitStep ==
    (last'.op = "switch_branch" /\ NoCommitYet) =>
        /\ last'.res = "Err"
        /\ branches' = <<>>
        /\ branch' = None
        /\ UNCHANGED <<commits, refs, head, tree_id>>

(* C8: switch_branch(x) while no commit exists fails for every name x and  *)
(* changes nothing: branches() stays empty, branch() stays none, the       *)
(* pending tree reference keeps its value.                                 *)
SwitchBeforeCommitFails == [][SwitchBeforeCommitStep]_vars

SwitchBeforeCommitWitness ==
    /\ last.op = "switch_branch" /\ last.res = "Err"
    /\ last.branch = Nested
    /\ NoCommitYet
    /\ tree_id # None
    /\ branches = <<>> /\ branch = None

RemoveBranchStep ==
    \A n \in BranchInputs :
        (last'.op = "remove_branch" /\ last'.branch = n) =>
            IF n = head \/ n \notin BranchNames \/ ~has_branch(n)
            THEN /\ last'.res = "Err"
                 /\ branches' = branches
                 /\ branch' = branch
            ELSE /\ last'.res = "Ok"
                 /\ ~has_branch(n)'
                 /\ \A b \in BranchNames \ {n} : refs'[b] = refs[b]
                 /\ head' = head
                 /\ branch' = branch

(* C9: remove_branch(n) fails and leaves branches() and branch() as they   *)
(* were when n is the branch HEAD points to or n is not an existing        *)
(* branch; otherwise it succeeds, n leaves branches(), and every other     *)
(* branch and the active branch are unchanged.                             *)
RemoveBranchOnlyInactive == [][RemoveBranchStep]_vars

RemoveBranchWitness ==
    /\ Succeeded("remove_branch")
    /\ last.branch = Master
    /\ head = Nested
    /\ branches = <<Nested>>

----------------------------------------------------------------------------
(* reset_key *)

ResetKeyStep ==
    \A k \in KeyInputs :
        (Succeeded("reset_key")' /\ last'.key = k) =>
            /\ key(k)' = IF NoCommitYet THEN None ELSE Lookup(HeadTree[1], k)
            /\ \A j \in KeyInputs \ {k} : /\ key(j)' = key(j)
                                          /\ has_key(j)' = has_key(j)

----------------------------------------------------------------------------
(* reset_key and key_changed *)

\* the current tree and the committed tree disagree on a key (before any
\* commit: the key is present)
PendingEdit(j) ==
    Lookup(Resolved[1], j) # (IF NoCommitYet THEN None ELSE Lookup(HeadTree[1], j))

ResetKeyFlagsStep ==
    \A k \in Keys :
        (Succeeded("reset_key")' /\ last'.key = k) =>
            /\ ~key_changed(k)'
            /\ \A j \in Keys \ {k} : PendingEdit(j) => (key_changed(j) /\ key_changed(j)')

(* C11: reset_key(k) makes key_changed(k) false, and key_changed(j) stays  *)
(* true for every other key j with a pending edit (j differs from the      *)
(* committed tree, or is present while no commit exists).                  *)
ResetKeyClearsOnlyItsFlag == [][ResetKeyFlagsStep]_vars

ResetKeyFlagsWitness ==
    /\ Succeeded("reset_key")
    /\ last.key = "bar"
    /\ ~NoCommitYet
    /\ Lookup(HeadTree[1], "bar") = Some("1")
    /\ ~key_changed("bar")
    /\ key_changed("foo")
    /\ changed

----------------------------------------------------------------------------
(* remove *)

(* C12: after remove() succeeds keys() is empty and has_keys() is false;   *)
(* a commit() that follows records the empty tree, and keys() is still     *)
(* empty after that commit and on a handle opened after it.                *)
RemoveAllThenCommit ==
    /\ Succeeded("remove") => (keys = <<>> /\ ~has_keys)
    /\ (roundtrip.stage \in {"committed", "reopened"} /\ roundtrip.prev = "remove") =>
          /\ keys = <<>>
          /\ ~has_keys
          /\ HeadTree = Some(EmptyTree)

RemoveAllWitness ==
    /\ roundtrip.stage = "reopened"
    /\ roundtrip.prev = "remove"
    /\ Len(commits) = 2
    /\ DOMAIN commits[1].tree = Keys
    /\ keys = <<>>

----------------------------------------------------------------------------
(* insertion order *)

ValidInserts == {kv \in InsertInputs : kv[1] \in Keys}

\* a tree with one more entry written, as the property reads it
With(tree, kv) ==
    [k \in (DOMAIN tree) \cup {kv[1]} |-> IF k = kv[1] THEN kv[2] ELSE tree[k]]

\* the step inserts p; inserting q next gives the tree that inserting q first
\* and p second gives from the state before the step
InsertOrderStep ==
    \A p \in ValidInserts, q \in ValidInserts :
        (p[1] # q[1] /\ Succeeded("insert_key")' /\ last'.key = p[1] /\ last'.value = p[2]) =>
            LET p_then_q == builder_insert(Resolved[1]', q[1], q[2])
                q_then_p == builder_insert(builder_insert(Resolved[1], q[1], q[2]), p[1], p[2])
            IN /\ p_then_q = q_then_p
               /\ p_then_q = With(With(Resolved[1], p), q)
               /\ NamesOf(p_then_q) = NamesOf(q_then_p)

(* C13: starting from the same state, inserting distinct keys with         *)
(* insert_key in either order yields the same pending tree, hence the same *)
(* keys() and the same key(k) for every k.                                 *)
InsertOrderIndependent == [][InsertOrderStep]_vars

InsertOrderWitness ==
    /\ Succeeded("insert_key")
    /\ last.key = "bar"
    /\ NoCommitYet
    /\ key("foo") = Some("1")
    /\ keys = <<"bar", "foo">>

----------------------------------------------------------------------------
(* history *)

RECURSIVE ReachesFirst(_)
\* following first parents from a commit arrives at the first commit of the store
ReachesFirst(c) ==
    IF c = 1 THEN TRUE
    ELSE IF commits[c].parents = <<>> THEN FALSE
    ELSE ReachesFirst(commits[c].parents[1])

LinearShape ==
    /\ \A i \in 1..Len(commits) :
          /\ Len(commits[i].parents) <= 1
          /\ (i = 1) = (commits[i].parents = <<>>)
          /\ i > 1 => commits[i].parents[1] \in 1..(i - 1)
    /\ \A b \in BranchNames : refs[b] # 0 => ReachesFirst(refs[b])

CommitParentStep ==
    Succeeded("commit")' =>
        /\ Len(commits') = Len(commits) + 1
        /\ SubSeq(commits', 1, Len(commits)) = commits
        /\ commits'[Len(commits')].parents =
              IF NoCommitYet THEN <<>> ELSE <<refs[head]>>

(* C14: every commit made by commit() has exactly one parent, the commit   *)
(* HEAD resolved to just before the call, except the first commit of the   *)
(* repository, which has none; no commit has more than one parent, and     *)
(* from every branch tip the parents lead to the first commit.             *)
LinearHistory == []LinearShape /\ [][CommitParentStep]_vars

LinearHistoryWitness ==
    /\ Len(commits) = 2
    /\ commits[1].parents = <<>>
    /\ commits[2].parents = <<1>>
    /\ refs[Master] = 1
    /\ refs[Nested] = 2
    /\ Succeeded("commit")

----------------------------------------------------------------------------
(* branch state *)

(* C15: branches() is empty and branch() is none exactly while no commit   *)
(* exists; the first commit() creates the default branch and makes it      *)
(* active; in every state with at least one commit branch() names a branch *)
(* that is an element of branches().                                       *)
BranchStateInvariant ==
    /\ NoCommitYet = (branches = <<>> /\ branch = None)
    /\ (Len(commits) = 1 /\ Succeeded("commit")) =>
          (branches = <<Master>> /\ branch = Some(Master))
    /\ ~NoCommitYet => (branch # None /\ has_branch(branch[1]))

\* the part of C15 that survives: HEAD, not the text branch() derives from it,
\* names an element of branches()
HeadIsABranch ==
    /\ NoCommitYet = (branches = <<>> /\ branch = None)
    /\ ~NoCommitYet => (branch # None /\ has_branch(head))

SwitchBranchStep ==
    \A n \in BranchNames :
        (~NoCommitYet /\ last'.op = "switch_branch" /\ last'.branch = n) =>
            /\ last'.res = "Ok"
            /\ branch' = Some(n)
            /\ has_branch(n)'
            /\ refs'[n] = IF refs[n] = 0 THEN refs[head] ELSE refs[n]
            /\ \A b \in BranchNames \ {n} : refs'[b] = refs[b]
            /\ head = n => UNCHANGED <<commits, refs, head, tree_id>>

(* C16: with at least one commit, switch_branch(name) succeeds and         *)
(* afterwards branch() = name and has_branch(name); a name that did not    *)
(* exist now points at the commit HEAD resolved to before the call, an     *)
(* existing one keeps its tip; the tips of all other branches are          *)
(* unchanged; switching to the branch already active changes nothing.      *)
SwitchBranchEffect == [][SwitchBranchStep]_vars

----------------------------------------------------------------------------
(* resolution after commit *)

(* C17: after a successful commit(), for as long as no insert_key,         *)
(* remove_key, reset_key or remove is performed on the handle, the current *)
(* tree is the tree of the commit HEAD resolves to: changed() is false and *)
(* keys()/key() read what a newly opened handle reads, also after          *)
(* switch_branch calls in between.                                         *)
CommitKeepsResolution ==
    since_commit =>
        /\ Resolved = HeadTree
        /\ ~changed
        /\ keys = NamesOf(HeadTree[1])
        /\ Observed = HeadTree[1]

----------------------------------------------------------------------------
(* remove_key *)

RemoveKeyStep ==
    \A k \in Keys :
        /\ (last'.op = "remove_key" /\ last'.key = k /\ ~has_key(k)) =>
              /\ last'.res = "Ok"
              /\ tree_id' = tree_id
              /\ Observed' = Observed
        /\ (Succeeded("remove_key")' /\ last'.key = k) =>
              /\ ~has_key(k)'
              /\ key(k)' = None
              /\ \A j \in Keys \ {k} : has_key(j)' = has_key(j) /\ key(j)' = key(j)

(* C18: after remove_key(k) succeeds, has_key(k) is false and key(k) is    *)
(* none, and every other key keeps its presence and value; when k is       *)
(* absent from the current tree the call succeeds and changes neither the  *)
(* key/value mapping nor the pending tree reference.                       *)
RemoveKeyFrame == [][RemoveKeyStep]_vars

RemoveKeyWitness ==
    /\ Succeeded("remove_key")
    /\ last.key = "foo"
    /\ ~NoCommitYet
    /\ HeadTree[1] = [k \in Keys |-> "1"]
    /\ tree_id = Some([k \in {"bar"} |-> "1"])
    /\ ~has_key("foo")
    /\ key("bar") = Some("1")

----------------------------------------------------------------------------
(* staging on a failing store *)

StagingOps == {"insert_key", "remove_key", "reset_key", "remove"}

\* a store call of the staging operation the step performs fails
StoreCallFails ==
    \E fault \in Faults :
        \/ /\ last'.op = "insert_key"
           /\ fault \in insert_key_steps
           /\ insert_key(last'.key, last'.value, fault)
        \/ /\ last'.op = "remove"
           /\ fault \in remove_steps
           /\ remove(fault)
        \/ /\ last'.op = "reset_key"
           /\ fault \in reset_key_steps(last'.key)
           /\ reset_key(last'.key, fault)
        \/ /\ last'.op = "remove_key"
           /\ fault \in remove_key_steps(last'.key)
           /\ remove_key(last'.key, fault)

FailedStagingStep ==
    /\ StoreCallFails => (last'.op \in StagingOps /\ last'.res = "Err")
    /\ (last'.op \in StagingOps /\ last'.res = "Err") =>
          /\ tree_id' = tree_id
          /\ keys' = keys
          /\ changed' = changed
          /\ \A k \in Keys : key(k)' = key(k) /\ has_key(k)' = has_key(k)

----------------------------------------------------------------------------
(* commit and the branches *)

\* the commit a branch name resolves to, 0 when there is no such branch
TipOf(name) == IF name \in BranchNames THEN refs[name] ELSE 0

CommitBranchStep ==
    Succeeded("commit")' =>
        /\ branch' # None
        /\ TipOf(branch[1])' = Len(commits')
        /\ commits'[Len(commits')].tree = Resolved[1]
        /\ \A b \in BranchNames : Some(b) # branch' => refs'[b] = refs[b]
        /\ ~NoCommitYet => (branches' = branches /\ branch' = branch)

(* C20: after a successful commit() the branch named by branch() points at *)
(* the new commit, whose tree is the current tree at the time of the call; *)
(* the tip of every other branch, the set of branch names and the active   *)
(* branch name (once a commit exists) are unchanged.                       *)
CommitMovesOnlyActiveBranch == [][CommitBranchStep]_vars

----------------------------------------------------------------------------
(* the two change flags *)

\* the only difference between the current tree and the committed tree is
\* that the committed key k is gone
OnlyRemoved(k) ==
    /\ ~NoCommitYet
    /\ k \in DOMAIN HeadTree[1]
    /\ Resolved[1] = [j \in (DOMAIN HeadTree[1]) \ {k} |-> HeadTree[1][j]]

(* C21: in every reachable state changed() is true if and only if          *)
(* key_changed(k) is true for at least one key k; when the only pending    *)
(* edit is the removal of a committed key k, changed() and key_changed(k)  *)
(* are both true; with no commits both reduce to the presence of staged    *)
(* keys.                                                                   *)
ChangeFlagsAgree ==
    /\ changed = (\E k \in KeyInputs : key_changed(k))
    /\ \A k \in Keys : OnlyRemoved(k) => (changed /\ key_changed(k))
    /\ NoCommitYet =>
          /\ changed = (tree_id # None /\ has_keys)
          /\ changed = has_keys
          /\ \A k \in KeyInputs : key_changed(k) = has_key(k)

ChangeFlagsWitness ==
    /\ Succeeded("remove_key")
    /\ last.key = "foo"
    /\ OnlyRemoved("foo")
    /\ HeadTree[1] = [k \in {"foo"} |-> "2"]
    /\ tree_id = Some(EmptyTree)
    /\ changed
    /\ key_changed("foo")
    /\ ~key_changed("bar")

====
